---------------------------- MODULE Spec2Model ----------------------------
(***************************************************************************)
(* Model of the pop-up storefront (gericke98/pedidos_shameless):           *)
(*   - the cart variant of OrderForm (src/db/queries.ts, from line 370),   *)
(*   - the server action createOrder (src/db/queries.ts:214-368),          *)
(*   - the single-item variant of OrderForm (src/unnamed/part_000),        *)
(*   - the Google Maps script loader (AddressAutocomplete.tsx:53-87),      *)
(*   - getProducts, createSession and getProvinceCode (src/db/queries.ts), *)
(*   - waitForGoogleMaps, handlePlaceChanged and the effect of             *)
(*     AddressAutocomplete (AddressAutocomplete.tsx:89-220),               *)
(*   - two pages of the cart form opened on the same catalog.              *)
(*                                                                         *)
(* React state is modelled by its committed value (functional updaters     *)
(* `setX(prev => ...)` are applied to the latest value, in call order) and *)
(* by `rendered`, the values captured by the closures of the last render:  *)
(* a handler reads `cartItems`, `formData` and `isSubmitting` of the       *)
(* render it was created in.  React re-renders some time after a handler   *)
(* has run; until then further events run the handlers of the old render.  *)
(*                                                                         *)
(* searchTerm and showProductModal only choose what the page shows and are *)
(* read by no handler; they are left out.  Product and variant objects are *)
(* read-only props: a cart line is [variantId, quantity] and its           *)
(* variant.inventoryQuantity is inventoryQuantity(variantId).              *)
(***************************************************************************)
EXTENDS Integers, Sequences, FiniteSets, TLC

\* ------------------------------------------------------------------ bounds
\* Largest inventoryQuantity of a catalog variant.
MaxStock == 2
\* Largest quantity argument of one addToCart / updateQuantity call.
MaxArg == 2
\* Cap on a cart line's quantity (guards only; the code has no cap).
MaxQty == 3
\* Cap on the number of cart lines (guards only; the code has no cap).
MaxLines == 2
\* Cap on the number of order mutations in flight at once.
MaxInFlight == 2
\* Number of runs of the autocomplete effect (initializeAutocomplete).
MaxRuns == 3
MaxEffects == 2

\* ------------------------------------------------------------ option values
\* `undefined`/`null` of the source is None, a present value x is Some(x).
None == <<>>
Some(x) == <<x>>

\* ------------------------------------------------------------------ catalog
\* The variants of the `products` prop that the picker shows (those with
\* inventoryQuantity > 0), by id.
Variants == {"v1", "v2"}

\* variant.inventoryQuantity of the catalog snapshot loaded with the page.
inventoryQuantity(v) == IF v = "v1" THEN MaxStock ELSE 1

\* --------------------------------------------------------------- variables
VARIABLES
    \* the cart variant of OrderForm
    cartItems,      \* useState<CartItem[]>: sequence of [variantId, quantity]
    isSubmitting,   \* useState(false)
    error,          \* useState<string | null>(null)
    success,        \* useState(false)
    rendered,       \* state captured by the handlers of the last render
    inflight,       \* order mutations sent and not yet answered
    formData,       \* useState<OrderFormData>: the text fields
    \* one call of createOrder
    orderData,      \* its argument
    mutation,       \* None, or Some(the variables it sent)
    response,       \* None, or Some(what fetch and response.json() produced)
    result,         \* None, or Some(how the call ended)
    \* AddressAutocomplete.tsx
    isScriptLoaded,     \* module-level `let isScriptLoaded`
    scriptLoadPromise,  \* module-level `let scriptLoadPromise`: None or Some(id)
    promises,           \* the promises created so far, by id: their state
    preexisting,        \* a maps script element was in the document already
    injectedScripts,    \* the script elements the loader appended
    runs,               \* the runs of initializeAutocomplete
    \* two calls of getProvinceCode
    provinceNames,      \* their arguments
    provinceCodes,      \* None, or Some(what the call returned), per call
    \* the server's configuration and one call of getProducts
    env,                \* process.env: the two values createSession reads
    catalogRequest,     \* None, or Some(the query sent to the backend)
    catalogResponse,    \* None, or Some(what fetch gave)
    catalogResult,      \* None, or Some(how getProducts ended)
    \* one call of waitForGoogleMaps
    mapsGlobal,         \* window.google?.maps?.places?.Autocomplete is there
    waitPromise,        \* "none", "pending" or "fulfilled"
    checkInterval,      \* the interval is set and not cleared
    timeoutPending,     \* the timeout is set and has not fired
    elapsed,            \* milliseconds since the call
    \* one place_changed event of the autocomplete widget
    place,              \* what autocomplete.getPlace() returns
    placeHandled,       \* handlePlaceChanged has run
    reported,           \* the arguments of the calls of onAddressSelect
    \* the addresses of one order-creation request
    addressInput,       \* the orderData they are built from
    addressRequest,     \* None, or Some([billingAddress, shippingAddress])
    \* the single-item variant of OrderForm
    itemFormData,       \* useState<OrderFormData>: text fields, product, variant
    itemRendered,       \* formData.product of the last render
    \* two sessions (pages) of the cart form, on one variant
    sessionSnapshot,    \* per session: variant.inventoryQuantity of its page
    sessionCart,        \* per session: the quantity of its cart line, 0 if none
    sessionError,       \* per session: the last add was refused
    sessionOrders,      \* the orderData submitted, in order, with their session
    \* one mounted AddressAutocomplete
    widgetScript,       \* the promise of loadGoogleMapsScript: "none" before the
                        \* first call, "loading", "loaded" or "error"
    widgetGlobal,       \* window.google.maps.places.Autocomplete is defined
    effects             \* the runs of the effect, oldest first: position of
                        \* initializeAutocomplete and the run's isMounted

formVars == <<cartItems, isSubmitting, error, success, rendered, inflight>>
orderVars == <<orderData, mutation, response, result>>
loaderVars == <<isScriptLoaded, scriptLoadPromise, promises, preexisting,
                injectedScripts, runs>>
provinceVars == <<provinceNames, provinceCodes>>
catalogVars == <<catalogRequest, catalogResponse, catalogResult>>
waitVars == <<mapsGlobal, waitPromise, checkInterval, timeoutPending, elapsed>>
placeVars == <<place, placeHandled, reported>>
addressVars == <<addressInput, addressRequest>>
itemVars == <<itemFormData, itemRendered>>
sessionVars == <<sessionSnapshot, sessionCart, sessionError, sessionOrders>>
widgetVars == <<widgetScript, widgetGlobal, effects>>
vars ==
    <<formVars, formData, orderVars, loaderVars, provinceVars, env, catalogVars, waitVars,
      placeVars, addressVars, itemVars, sessionVars, widgetVars>>

\* What the steps of one part leave alone: the state of the other parts.
outsideForm ==
    <<orderVars, loaderVars, provinceVars, env, catalogVars, waitVars,
      placeVars, addressVars, itemVars, sessionVars, widgetVars>>
outsideOrder ==
    <<formVars, formData, loaderVars, provinceVars, env, catalogVars, waitVars,
      placeVars, addressVars, itemVars, sessionVars, widgetVars>>
outsideLoader ==
    <<formVars, formData, orderVars, provinceVars, env, catalogVars, waitVars,
      placeVars, addressVars, itemVars, sessionVars, widgetVars>>
outsideProvince ==
    <<formVars, formData, orderVars, loaderVars, env, catalogVars, waitVars,
      placeVars, addressVars, itemVars, sessionVars, widgetVars>>
outsideCatalog ==
    <<formVars, formData, orderVars, loaderVars, provinceVars, env, waitVars, placeVars,
      addressVars, itemVars, sessionVars, widgetVars>>
outsideWait ==
    <<formVars, formData, orderVars, loaderVars, provinceVars, env, catalogVars, placeVars,
      addressVars, itemVars, sessionVars, widgetVars>>
outsidePlace ==
    <<formVars, formData, orderVars, loaderVars, provinceVars, env, catalogVars, waitVars,
      addressVars, itemVars, sessionVars, widgetVars>>
outsideWidget ==
    <<formVars, orderVars, loaderVars, provinceVars, env, catalogVars, waitVars,
      placeVars, addressVars, itemVars, sessionVars>>
outsideSessions ==
    <<formVars, formData, orderVars, loaderVars, provinceVars, env, catalogVars, waitVars,
      placeVars, addressVars, itemVars, widgetVars>>
outsideItem ==
    <<formVars, formData, orderVars, loaderVars, provinceVars, env, catalogVars, waitVars,
      placeVars, addressVars, sessionVars, widgetVars>>
outsideAddress ==
    <<formVars, formData, orderVars, loaderVars, provinceVars, env, catalogVars, waitVars,
      placeVars, itemVars, sessionVars, widgetVars>>

\* error === null
NoError == "null"

\* ------------------------------------------------------- fetch outcomes
\* What `await fetch(...)` followed by `await response.json()` can produce for
\* the order mutation.  rejected: fetch itself rejects (network failure).
\* ok: response.ok.  json: None when the body is not JSON (response.json()
\* rejects), else the parsed body.  A parsed body is
\*   [errors: Option(list), data: Option([orderCreate: Option(
\*        [userErrors: Option(list), order: Option(order)])])].
UserErrorLists == {None, Some(<<>>), Some(<<"x">>)}

OrderCreatePayloads ==
    [userErrors : UserErrorLists, order : {None, Some("order#1")}]

DataValues ==
    {None} \cup {Some([orderCreate |-> oc]) :
                    oc \in {None} \cup {Some(p) : p \in OrderCreatePayloads}}

Bodies == [errors : {None, Some(<<"gql">>)}, data : DataValues]

FetchOutcomes ==
    {[rejected |-> TRUE, ok |-> FALSE, json |-> None]}
      \cup [rejected : {FALSE}, ok : BOOLEAN,
            json : {None} \cup {Some(b) : b \in Bodies}]

\* ----------------------------------------------------------- createSession
\* A value of process.env: undefined, the empty string, or a non-empty string.
EnvValues == {None, Some(""), Some("set")}

\* !value
falsy(value) == value = None \/ value = Some("")

Environments ==
    [NEXT_PUBLIC_ACCESS_TOKEN : EnvValues, NEXT_PUBLIC_SHOP_URL : EnvValues]

\* The deployed configuration: both values set.
Configured ==
    [NEXT_PUBLIC_ACCESS_TOKEN |-> Some("set"), NEXT_PUBLIC_SHOP_URL |-> Some("set")]

ConfigError == "Missing Shopify access token or shop URL"

\* createSession that only looks at the access token.
createSession_TokenOnly(e) ==
    IF falsy(e.NEXT_PUBLIC_ACCESS_TOKEN)
    THEN [threw |-> TRUE, message |-> ConfigError]
    ELSE [threw |-> FALSE, message |-> ""]

\* createSession(): throws, or returns the request headers.
createSession(e) ==
    IF falsy(e.NEXT_PUBLIC_ACCESS_TOKEN) \/ falsy(e.NEXT_PUBLIC_SHOP_URL)
    THEN [threw |-> TRUE, message |-> ConfigError]
    ELSE [threw |-> FALSE, message |-> ""]

\* ------------------------------------------------------------- createOrder
\* The `variables.order.lineItems` of the mutation: one line, built from
\* orderData.variantId with the literal quantity 1.  orderData.lineItems is
\* never read.
createOrderLineItems(od) ==
    << [variantId |-> od.variantId, quantity |-> 1] >>

\* The mutation createOrder sends for the orderData od.
createOrderVariables(od) ==
    [lineItems |-> createOrderLineItems(od)]

\* How createOrder ends: it throws an Error with `message`, or returns
\* {success, error, data}.  The returned `error` is a string (error) or the
\* list of userErrors (errorList).
Throws(msg) ==
    [threw |-> TRUE, message |-> msg, success |-> FALSE,
     error |-> "", errorList |-> <<>>, data |-> None]

Failure(msg, list) ==
    [threw |-> FALSE, message |-> "", success |-> FALSE,
     error |-> msg, errorList |-> list, data |-> None]

Succeeds(order) ==
    [threw |-> FALSE, message |-> "", success |-> TRUE,
     error |-> "", errorList |-> <<>>, data |-> Some(order)]

\* data?.data?.orderCreate
orderCreateOf(body) ==
    IF body.data = None THEN None ELSE body.data[1].orderCreate

\* classifyResponse with the order looked at before the userErrors.
classifyResponse_OrderFirst(body) ==
    LET orderResponse == orderCreateOf(body) IN
    IF orderResponse = None
    THEN Failure("Missing orderCreate field", <<>>)
    ELSE IF orderResponse[1].order # None
    THEN Succeeds(orderResponse[1].order[1])
    ELSE IF /\ orderResponse[1].userErrors # None
            /\ Len(orderResponse[1].userErrors[1]) > 0
    THEN Failure("", orderResponse[1].userErrors[1])
    ELSE Failure("Order not found in response", <<>>)

\* classifyResponse without the `if (!createdOrder)` check.
classifyResponse_NoOrderCheck(body) ==
    LET orderResponse == orderCreateOf(body) IN
    IF orderResponse = None
    THEN Failure("Missing orderCreate field", <<>>)
    ELSE IF /\ orderResponse[1].userErrors # None
            /\ Len(orderResponse[1].userErrors[1]) > 0
    THEN Failure("", orderResponse[1].userErrors[1])
    ELSE [Succeeds("") EXCEPT !.data = orderResponse[1].order]

\* The body of the try block once the body is parsed (lines 330-363).
classifyResponse(body) ==
    LET orderResponse == orderCreateOf(body) IN
    IF orderResponse = None
    THEN Failure("Missing orderCreate field", <<>>)
    ELSE IF /\ orderResponse[1].userErrors # None
            /\ Len(orderResponse[1].userErrors[1]) > 0
    THEN Failure("", orderResponse[1].userErrors[1])
    ELSE IF orderResponse[1].order = None
    THEN Failure("Order not found in response", <<>>)
    ELSE Succeeds(orderResponse[1].order[1])

\* createOrder from the fetch on (lines 321-367): a rejection of fetch or of
\* response.json() is logged and rethrown; response.ok is never read.
createOrderOutcome(r) ==
    IF r.rejected THEN Throws("fetch failed")
    ELSE IF r.json = None THEN Throws("Unexpected token")
    ELSE classifyResponse(r.json[1])

\* -------------------------------------------------------------- cart form
\* The text fields of formData, and what a field can hold: nothing or a text.
FieldNames ==
    {"address1", "city", "firstName", "lastName", "phone", "zip", "email"}

\* The fields with a text input of their own; address1 is filled in by
\* handleAddressSelect only.
InputNames == FieldNames \ {"address1"}

FieldValues == {"", "x"}

\* The initial formData, and the one set after a submission.
EmptyFormData == [name \in FieldNames |-> ""]

\* handleChange(e): the field e.target.name gets e.target.value.
handleChange(name, value) ==
    formData' = [formData EXCEPT ![name] = value]

\* handleAddressSelect(address)
handleAddressSelect(address) ==
    formData' = [formData EXCEPT !.address1 = address.street,
                                 !.city = address.city,
                                 !.zip = address.zip]

\* Array.prototype.findIndex on variantId, 1-based; 0 when there is none.
findIndex(items, v) ==
    IF \E i \in DOMAIN items : items[i].variantId = v
    THEN CHOOSE i \in DOMAIN items :
            /\ items[i].variantId = v
            /\ \A j \in 1..(i - 1) : items[j].variantId # v
    ELSE 0

\* prev.filter((item) => item.variantId !== variantId)
filterOut(items, v) ==
    SelectSeq(items, LAMBDA item : item.variantId # v)

\* addToCart(product, variant, quantity): the check reads the cartItems of the
\* render, the update maps the latest cartItems.
addToCart(v, quantity) ==
    LET existingItemIndex == findIndex(rendered.cartItems, v)
        currentQuantity ==
            IF existingItemIndex > 0
            THEN rendered.cartItems[existingItemIndex].quantity ELSE 0
    IN  IF currentQuantity + quantity > inventoryQuantity(v)
        THEN /\ error' = "Cannot add"
             /\ UNCHANGED cartItems
        ELSE /\ cartItems' =
                   IF existingItemIndex > 0
                   THEN [i \in DOMAIN cartItems |->
                           IF i = existingItemIndex
                           THEN [cartItems[i] EXCEPT !.quantity = @ + quantity]
                           ELSE cartItems[i]]
                   ELSE Append(cartItems, [variantId |-> v, quantity |-> quantity])
             /\ error' = NoError

\* removeFromCart(variantId)
removeFromCart(v) ==
    /\ cartItems' = filterOut(cartItems, v)
    /\ UNCHANGED error

\* updateQuantity(variantId, quantity)
updateQuantity(v, quantity) ==
    IF quantity <= 0 THEN removeFromCart(v)
    ELSE LET idx == findIndex(rendered.cartItems, v) IN
         IF idx > 0 /\ quantity > inventoryQuantity(rendered.cartItems[idx].variantId)
         THEN /\ error' = "Cannot set quantity"
              /\ UNCHANGED cartItems
         ELSE /\ cartItems' =
                    [i \in DOMAIN cartItems |->
                        IF cartItems[i].variantId = v
                        THEN [cartItems[i] EXCEPT !.quantity = quantity]
                        ELSE cartItems[i]]
              /\ error' = NoError

\* The caps that keep the model finite.
WithinCaps(items) ==
    /\ Len(items) <= MaxLines
    /\ \A i \in DOMAIN items : items[i].quantity <= MaxQty

\* orderData of the cart form's handleSubmit (lines 441-453): it has
\* lineItems and no variantId.
cartOrderData ==
    [variantId |-> None,
     lineItems |-> Some([i \in DOMAIN rendered.cartItems |->
                          [variantId |-> rendered.cartItems[i].variantId,
                           quantity |-> rendered.cartItems[i].quantity]])]

\* handleSubmit without the `if (cartItems.length === 0)` check.
handleSubmit_NoEmptyCheck ==
    /\ isSubmitting' = TRUE
    /\ error' = NoError
    /\ success' = FALSE
    /\ inflight' = Append(inflight, createOrderVariables(cartOrderData))

\* handleSubmit up to `await createOrder(orderData)`.
handleSubmit ==
    IF Len(rendered.cartItems) = 0
    THEN /\ error' = "Please add at least one product to your cart"
         /\ UNCHANGED <<isSubmitting, success, inflight>>
    ELSE /\ isSubmitting' = TRUE
         /\ error' = NoError
         /\ success' = FALSE
         /\ inflight' = Append(inflight, createOrderVariables(cartOrderData))

\* handleSubmit from the await on, createOrder having ended as `outcome`.
handleSubmitSettled(outcome) ==
    /\ IF outcome.threw
       THEN /\ error' = outcome.message
            /\ UNCHANGED <<success, formData, cartItems>>
       ELSE /\ success' = TRUE
            /\ formData' = EmptyFormData
            /\ cartItems' = <<>>
            /\ UNCHANGED error
    /\ isSubmitting' = FALSE

RemoveAt(s, i) == [j \in 1..(Len(s) - 1) |-> IF j < i THEN s[j] ELSE s[j + 1]]

\* ------------------------------------------------- the cart form's steps
FormInit ==
    /\ cartItems = <<>>
    /\ isSubmitting = FALSE
    /\ error = NoError
    /\ success = FALSE
    /\ rendered = [cartItems |-> <<>>, isSubmitting |-> FALSE]
    /\ inflight = <<>>

\* React re-renders: the handlers now close over the committed state.
Render ==
    /\ rendered # [cartItems |-> cartItems, isSubmitting |-> isSubmitting]
    /\ rendered' = [cartItems |-> cartItems, isSubmitting |-> isSubmitting]
    /\ UNCHANGED <<cartItems, isSubmitting, error, success, inflight>>
    /\ UNCHANGED <<formData, outsideForm>>

\* A call addToCart(product, variant, quantity) for a variant of the picker
\* (its Add button passes the quantity 1).
AddToCart ==
    \E v \in Variants, quantity \in 1..MaxArg :
        /\ addToCart(v, quantity)
        /\ WithinCaps(cartItems')
        /\ UNCHANGED <<isSubmitting, success, rendered, inflight>>
        /\ UNCHANGED <<formData, outsideForm>>

\* The - and + buttons of a rendered cart line.
UpdateQuantity ==
    \E i \in DOMAIN rendered.cartItems, d \in {-1, 1} :
        /\ updateQuantity(rendered.cartItems[i].variantId,
                          rendered.cartItems[i].quantity + d)
        /\ WithinCaps(cartItems')
        /\ UNCHANGED <<isSubmitting, success, rendered, inflight>>
        /\ UNCHANGED <<formData, outsideForm>>

\* The remove button of a rendered cart line.
RemoveFromCart ==
    \E i \in DOMAIN rendered.cartItems :
        /\ removeFromCart(rendered.cartItems[i].variantId)
        /\ UNCHANGED <<isSubmitting, success, rendered, inflight>>
        /\ UNCHANGED <<formData, outsideForm>>

\* The Clear Cart button, onClick={() => setCartItems([])}.
ClearCart ==
    /\ Len(rendered.cartItems) > 0
    /\ cartItems' = <<>>
    /\ UNCHANGED <<isSubmitting, error, success, rendered, inflight>>
    /\ UNCHANGED <<formData, outsideForm>>

\* The submit button, disabled={isSubmitting || cartItems.length === 0}.
Submit ==
    /\ ~(rendered.isSubmitting \/ Len(rendered.cartItems) = 0)
    /\ Len(inflight) < MaxInFlight
    /\ handleSubmit
    /\ UNCHANGED <<cartItems, rendered>>
    /\ UNCHANGED <<formData, outsideForm>>

\* SettleWith that sends the mutation again when createOrder threw.
SettleWith_Retry(i, r) ==
    /\ handleSubmitSettled(createOrderOutcome(r))
    /\ inflight' = IF createOrderOutcome(r).threw
                   THEN Append(RemoveAt(inflight, i), inflight[i])
                   ELSE RemoveAt(inflight, i)
    /\ UNCHANGED rendered
    /\ UNCHANGED outsideForm

\* The backend answers mutation i in flight with r.
SettleWith(i, r) ==
    /\ handleSubmitSettled(createOrderOutcome(r))
    /\ inflight' = RemoveAt(inflight, i)
    /\ UNCHANGED rendered
    /\ UNCHANGED outsideForm

Settle ==
    \E i \in DOMAIN inflight, r \in FetchOutcomes : SettleWith(i, r)

\* ------------------------------------------- the cart form's text fields
FieldsIdle == formData = EmptyFormData

\* The form with an empty cart or with one line in it, as rendered.
FieldsInit ==
    /\ cartItems \in { <<>>, << [variantId |-> "v1", quantity |-> 1] >> }
    /\ isSubmitting = FALSE
    /\ error = NoError
    /\ success = FALSE
    /\ rendered = [cartItems |-> cartItems, isSubmitting |-> FALSE]
    /\ inflight = <<>>
    /\ formData = EmptyFormData

\* A change event of one of the text inputs.
HandleChange ==
    \E name \in InputNames, value \in FieldValues :
        /\ handleChange(name, value)
        /\ UNCHANGED formVars
        /\ UNCHANGED outsideForm

\* The autocomplete reports an address.
HandleAddressSelect ==
    \E address \in [street : FieldValues, city : FieldValues, zip : FieldValues] :
        /\ handleAddressSelect(address)
        /\ UNCHANGED formVars
        /\ UNCHANGED outsideForm

\* A submit event of the form, whatever the submit button shows: the form's
\* onSubmit runs handleSubmit also for form.requestSubmit().
SubmitEvent ==
    /\ Len(inflight) < MaxInFlight
    /\ handleSubmit
    /\ UNCHANGED <<cartItems, rendered, formData>>
    /\ UNCHANGED outsideForm

\* Arguments the two forms pass: the single-item form gives variantId, the
\* cart form gives lineItems.
OrderInputs ==
    [variantId : {None, Some("v1"), Some("v2")},
     lineItems : {None, Some(<< [variantId |-> "v1", quantity |-> 2] >>)}]

OrderIdle ==
    /\ orderData = [variantId |-> None, lineItems |-> None]
    /\ mutation = None
    /\ response = None
    /\ result = None

OrderInit ==
    /\ orderData \in OrderInputs
    /\ mutation = None
    /\ response = None
    /\ result = None

\* createOrder up to the fetch: createSession throws, or the mutation is
\* built and sent.
CreateOrderCall ==
    /\ mutation = None
    /\ result = None
    /\ IF createSession(env).threw
       THEN /\ result' = Some(Throws(createSession(env).message))
            /\ UNCHANGED mutation
       ELSE /\ mutation' = Some(createOrderVariables(orderData))
            /\ UNCHANGED result
    /\ UNCHANGED <<orderData, response>>
    /\ UNCHANGED outsideOrder

\* createOrder from the fetch on.
CreateOrderSettle ==
    /\ mutation # None
    /\ result = None
    /\ \E r \in FetchOutcomes :
        /\ response' = Some(r)
        /\ result' = Some(createOrderOutcome(r))
    /\ UNCHANGED <<orderData, mutation>>
    /\ UNCHANGED outsideOrder

\* ------------------------------------------------------- the script loader
\* document.querySelector('script[src*="maps.googleapis.com/maps/api/js"]')
existingScript == preexisting \/ Len(injectedScripts) > 0

\* loadGoogleMapsScript without `if (scriptLoadPromise) return scriptLoadPromise`.
loadGoogleMapsScript_NoPromiseCache(ret) ==
    IF isScriptLoaded
    THEN /\ ret = Len(promises) + 1
         /\ promises' = Append(promises, "fulfilled")
         /\ UNCHANGED <<isScriptLoaded, scriptLoadPromise, injectedScripts>>
    ELSE /\ ret = Len(promises) + 1
         /\ scriptLoadPromise' = Some(ret)
         /\ promises' = Append(promises, "pending")
         /\ injectedScripts' =
                Append(injectedScripts, [state |-> "loading", promise |-> ret])
         /\ UNCHANGED isScriptLoaded

\* loadGoogleMapsScript that starts over when the cached promise is rejected.
loadGoogleMapsScript_RetryAfterFailure(ret) ==
    IF isScriptLoaded
    THEN /\ ret = Len(promises) + 1
         /\ promises' = Append(promises, "fulfilled")
         /\ UNCHANGED <<isScriptLoaded, scriptLoadPromise, injectedScripts>>
    ELSE IF scriptLoadPromise # None /\ promises[scriptLoadPromise[1]] # "rejected"
    THEN /\ ret = scriptLoadPromise[1]
         /\ UNCHANGED <<isScriptLoaded, scriptLoadPromise, promises, injectedScripts>>
    ELSE /\ ret = Len(promises) + 1
         /\ scriptLoadPromise' = Some(ret)
         /\ IF existingScript
            THEN /\ isScriptLoaded' = TRUE
                 /\ promises' = Append(promises, "fulfilled")
                 /\ UNCHANGED injectedScripts
            ELSE /\ promises' = Append(promises, "pending")
                 /\ injectedScripts' =
                        Append(injectedScripts, [state |-> "loading", promise |-> ret])
                 /\ UNCHANGED isScriptLoaded

\* loadGoogleMapsScript(), returning the promise with id ret.  A promise made
\* by this call has the next free id.
loadGoogleMapsScript(ret) ==
    IF isScriptLoaded
    THEN /\ ret = Len(promises) + 1
         /\ promises' = Append(promises, "fulfilled")
         /\ UNCHANGED <<isScriptLoaded, scriptLoadPromise, injectedScripts>>
    ELSE IF scriptLoadPromise # None
    THEN /\ ret = scriptLoadPromise[1]
         /\ UNCHANGED <<isScriptLoaded, scriptLoadPromise, promises, injectedScripts>>
    ELSE /\ ret = Len(promises) + 1
         /\ scriptLoadPromise' = Some(ret)
         /\ IF existingScript
            THEN /\ isScriptLoaded' = TRUE
                 /\ promises' = Append(promises, "fulfilled")
                 /\ UNCHANGED injectedScripts
            ELSE /\ promises' = Append(promises, "pending")
                 /\ injectedScripts' =
                        Append(injectedScripts, [state |-> "loading", promise |-> ret])
                 /\ UNCHANGED isScriptLoaded

\* resolve() or reject() of promise id: a settled promise stays as it is.
settle(id, to) ==
    [promises EXCEPT ![id] = IF @ = "pending" THEN to ELSE @]

LoaderIdle ==
    /\ isScriptLoaded = FALSE
    /\ scriptLoadPromise = None
    /\ promises = <<>>
    /\ preexisting = FALSE
    /\ injectedScripts = <<>>
    /\ runs = [r \in 1..MaxRuns |-> [pc |-> "notStarted", promise |-> 0]]

LoaderInit ==
    /\ isScriptLoaded = FALSE
    /\ scriptLoadPromise = None
    /\ promises = <<>>
    /\ preexisting \in BOOLEAN
    /\ injectedScripts = <<>>
    /\ runs = [r \in 1..MaxRuns |-> [pc |-> "notStarted", promise |-> 0]]

\* The effect runs initializeAutocomplete, up to `await loadGoogleMapsScript()`.
InitializeAutocomplete ==
    \E r \in DOMAIN runs, ret \in 1..(Len(promises) + 1) :
        /\ runs[r].pc = "notStarted"
        /\ loadGoogleMapsScript(ret)
        /\ runs' = [runs EXCEPT ![r] = [pc |-> "awaitLoad", promise |-> ret]]
        /\ UNCHANGED preexisting
        /\ UNCHANGED outsideLoader

\* script.onload of an appended script.
ScriptOnload ==
    \E k \in DOMAIN injectedScripts :
        /\ injectedScripts[k].state = "loading"
        /\ injectedScripts' = [injectedScripts EXCEPT ![k].state = "loaded"]
        /\ isScriptLoaded' = TRUE
        /\ promises' = settle(injectedScripts[k].promise, "fulfilled")
        /\ UNCHANGED <<scriptLoadPromise, preexisting, runs>>
        /\ UNCHANGED outsideLoader

\* script.onerror that also forgets the cached promise, to allow a retry.
ScriptOnerror_ResetsLoader ==
    \E k \in DOMAIN injectedScripts :
        /\ injectedScripts[k].state = "loading"
        /\ injectedScripts' = [injectedScripts EXCEPT ![k].state = "error"]
        /\ promises' = settle(injectedScripts[k].promise, "rejected")
        /\ scriptLoadPromise' = None
        /\ UNCHANGED <<isScriptLoaded, preexisting, runs>>
        /\ UNCHANGED outsideLoader

\* script.onerror of an appended script.
ScriptOnerror ==
    \E k \in DOMAIN injectedScripts :
        /\ injectedScripts[k].state = "loading"
        /\ injectedScripts' = [injectedScripts EXCEPT ![k].state = "error"]
        /\ promises' = settle(injectedScripts[k].promise, "rejected")
        /\ UNCHANGED <<isScriptLoaded, scriptLoadPromise, preexisting, runs>>
        /\ UNCHANGED outsideLoader

\* A run resumes after `await loadGoogleMapsScript()`: it goes on to
\* waitForGoogleMaps, or to the catch block when the promise rejected.
ResumeAfterLoad ==
    \E r \in DOMAIN runs :
        /\ runs[r].pc = "awaitLoad"
        /\ promises[runs[r].promise] # "pending"
        /\ runs' = [runs EXCEPT ![r].pc =
                      IF promises[runs[r].promise] = "fulfilled"
                      THEN "awaitMaps" ELSE "caught"]
        /\ UNCHANGED <<isScriptLoaded, scriptLoadPromise, promises, preexisting,
                       injectedScripts>>
        /\ UNCHANGED outsideLoader

\* --------------------------------------------------------- getProvinceCode
\* A string is a sequence of code points.  A letter is [letter, upper,
\* accent]: accent marks a precomposed accented letter (as in "e" with acute).
\* CombiningMark is a code point of U+0300..U+036F.
Lo(l) == [letter |-> l, upper |-> FALSE, accent |-> FALSE]
Up(l) == [letter |-> l, upper |-> TRUE, accent |-> FALSE]
LoAcc(l) == [letter |-> l, upper |-> FALSE, accent |-> TRUE]
UpAcc(l) == [letter |-> l, upper |-> TRUE, accent |-> TRUE]
CombiningMark == [letter |-> "", upper |-> FALSE, accent |-> TRUE]

RECURSIVE NFD(_)
\* String.prototype.normalize("NFD"): a precomposed accented letter becomes
\* the plain letter followed by a combining mark.
NFD(str) ==
    IF str = <<>> THEN <<>>
    ELSE LET c == Head(str) IN
         (IF c.accent /\ c # CombiningMark
          THEN << [c EXCEPT !.accent = FALSE], CombiningMark >>
          ELSE << c >>) \o NFD(Tail(str))

\* .replace(/[\u0300-\u036f]/g, "")
removeMarks(str) == SelectSeq(str, LAMBDA c : c # CombiningMark)

\* String.prototype.toUpperCase
toUpperCase(str) ==
    [i \in DOMAIN str |->
        IF str[i] = CombiningMark THEN str[i] ELSE [str[i] EXCEPT !.upper = TRUE]]

\* normalizeName without normalize("NFD"): a precomposed letter keeps its accent.
normalizeName_NoNFD(str) == toUpperCase(removeMarks(str))

\* name.normalize("NFD").replace(/[\u0300-\u036f]/g, "").toUpperCase()
normalizeName(str) == toUpperCase(removeMarks(NFD(str)))

\* SPANISH_PROVINCE_CODES, in source order: the entries whose names the
\* modelled inputs can spell (no input spells another entry's name).
SPANISH_PROVINCE_CODES ==
    << [name |-> << UpAcc("A"), Lo("V"), Lo("I"), Lo("L"), Lo("A") >>,
        code |-> << Up("A"), Up("V") >>],
       [name |-> << Up("J"), Lo("A"), LoAcc("E"), Lo("N") >>,
        code |-> << Up("J") >>],
       [name |-> << Up("L"), Lo("E"), LoAcc("O"), Lo("N") >>,
        code |-> << Up("L"), Up("E") >>],
       [name |-> << Up("L"), Lo("U"), Lo("G"), Lo("O") >>,
        code |-> << Up("L"), Up("U") >>],
       [name |-> << Up("M"), Lo("A"), Lo("D"), Lo("R"), Lo("I"), Lo("D") >>,
        code |-> << Up("M") >>] >>

\* getProvinceCode(provinceName)
getProvinceCode(provinceName) ==
    LET normalizedName == normalizeName(provinceName)
        matching == {i \in DOMAIN SPANISH_PROVINCE_CODES :
                        normalizeName(SPANISH_PROVINCE_CODES[i].name) = normalizedName}
    IN  IF matching # {}
        THEN SPANISH_PROVINCE_CODES[
                CHOOSE i \in matching : \A j \in matching : i <= j].code
        ELSE provinceName

\* The ways to write one letter: lower or upper case, and for a vowel also
\* with a precomposed accent or followed by a combining mark.
Vowels == {"A", "E", "I", "O", "U"}

Forms(l) ==
    { <<Lo(l)>>, <<Up(l)>> } \cup
    (IF l \in Vowels
     THEN { <<LoAcc(l)>>, <<UpAcc(l)>>, <<Lo(l), CombiningMark>>,
            <<Up(l), CombiningMark>> }
     ELSE {})

RECURSIVE Spellings(_)
Spellings(word) ==
    IF word = <<>> THEN { <<>> }
    ELSE { f \o rest : f \in Forms(Head(word)), rest \in Spellings(Tail(word)) }

\* The arguments: every spelling of a province name of the table and of a
\* name that is in no table.
ProvinceWords == { <<"J", "A", "E", "N">>, <<"R", "O", "M", "A">> }

ProvinceIdle ==
    /\ provinceNames = << <<>>, <<>> >>
    /\ provinceCodes = << None, None >>

ProvinceInit ==
    /\ \E w \in ProvinceWords :
          provinceNames \in Spellings(w) \X Spellings(w)
    /\ provinceCodes = << None, None >>

\* Both calls of getProvinceCode return.
GetProvinceCode ==
    /\ provinceCodes = << None, None >>
    /\ provinceCodes' = << Some(getProvinceCode(provinceNames[1])),
                           Some(getProvinceCode(provinceNames[2])) >>
    /\ UNCHANGED provinceNames
    /\ UNCHANGED outsideProvince

\* ------------------------------------------------------------- getProducts
\* A product of the backend response: its id and the `src` of the nodes of
\* images.edges, in order (`src` is the query's alias of `url`).
ProductPool ==
    { [id |-> "p0", images |-> <<>>],
      [id |-> "p1", images |-> <<"u1">>],
      [id |-> "p2", images |-> <<"u2", "u1">>] }

MaxProducts == 2

\* data.products.edges
ProductLists ==
    UNION { [1..n -> ProductPool] : n \in 0..MaxProducts }

\* The parsed body: errors is absent, [] or a list with an error; data is
\* null or holds the products.
CatalogBodies ==
    [errors : {None, Some(<<>>), Some(<<"e">>)},
     data : {None} \cup {Some(ps) : ps \in ProductLists}]

\* What fetch and response.json() can give getProducts.
CatalogOutcomes ==
    { [rejected |-> TRUE, ok |-> FALSE, json |-> None] } \cup
    [rejected : {FALSE}, ok : BOOLEAN, json : {None} \cup {Some(b) : b \in CatalogBodies}]

\* How getProducts ends: it throws an Error, or returns the products.
CatalogThrows(msg) == [threw |-> TRUE, message |-> msg, products |-> <<>>]

CatalogReturns(ps) == [threw |-> FALSE, message |-> "", products |-> ps]

\* withImage taking the last image.
withImage_LastImage(product) ==
    [id |-> product.id, images |-> product.images,
     image |-> [src |-> IF Len(product.images) > 0
                        THEN product.images[Len(product.images)] ELSE ""]]

\* The callback of data.products.edges.map: the product, with image.src.
withImage(product) ==
    [id |-> product.id, images |-> product.images,
     image |-> [src |-> IF Len(product.images) > 0
                        THEN product.images[1] ELSE ""]]

\* getProductsOutcome without the `if (!response.ok)` check.
getProductsOutcome_NoOkCheck(r) ==
    IF r.rejected THEN CatalogThrows("fetch failed")
    ELSE IF r.json = None THEN CatalogThrows("Unexpected token")
    ELSE IF r.json[1].errors # None THEN CatalogThrows("GraphQL query failed")
    ELSE IF r.json[1].data = None THEN CatalogThrows("Cannot read properties of null")
    ELSE CatalogReturns([i \in DOMAIN r.json[1].data[1] |-> withImage(r.json[1].data[1][i])])

\* getProducts from the fetch on: whatever is thrown inside the try block is
\* logged and rethrown.  `errors` is truthy also when it is [].
getProductsOutcome(r) ==
    IF r.rejected THEN CatalogThrows("fetch failed")
    ELSE IF ~r.ok THEN CatalogThrows("HTTP error! status")
    ELSE IF r.json = None THEN CatalogThrows("Unexpected token")
    ELSE IF r.json[1].errors # None THEN CatalogThrows("GraphQL query failed")
    ELSE IF r.json[1].data = None THEN CatalogThrows("Cannot read properties of null")
    ELSE CatalogReturns([i \in DOMAIN r.json[1].data[1] |-> withImage(r.json[1].data[1][i])])

CatalogIdle ==
    /\ catalogRequest = None
    /\ catalogResponse = None
    /\ catalogResult = None

\* getProducts up to the fetch: createSession throws, or the query is sent.
GetProductsCall ==
    /\ catalogRequest = None
    /\ catalogResult = None
    /\ IF createSession(env).threw
       THEN /\ catalogResult' = Some(CatalogThrows(createSession(env).message))
            /\ UNCHANGED catalogRequest
       ELSE /\ catalogRequest' = Some("query getProducts")
            /\ UNCHANGED catalogResult
    /\ UNCHANGED catalogResponse
    /\ UNCHANGED outsideCatalog

\* getProducts from the fetch on.
GetProductsSettle ==
    /\ catalogRequest # None
    /\ catalogResult = None
    /\ \E r \in CatalogOutcomes :
        /\ catalogResponse' = Some(r)
        /\ catalogResult' = Some(getProductsOutcome(r))
    /\ UNCHANGED catalogRequest
    /\ UNCHANGED outsideCatalog

\* ------------------------------------------------------- waitForGoogleMaps
\* setInterval(..., 100) and setTimeout(..., 10000)
PollIntervalMs == 100

TimeoutMs == 10000

WaitIdle ==
    /\ mapsGlobal = FALSE
    /\ waitPromise = "none"
    /\ checkInterval = FALSE
    /\ timeoutPending = FALSE
    /\ elapsed = 0

WaitInit ==
    /\ mapsGlobal \in BOOLEAN
    /\ waitPromise = "none"
    /\ checkInterval = FALSE
    /\ timeoutPending = FALSE
    /\ elapsed = 0

\* waitForGoogleMaps(): the promise resolves at once when the global is there;
\* otherwise the interval and the timeout are set.
WaitForGoogleMaps ==
    /\ waitPromise = "none"
    /\ IF mapsGlobal
       THEN /\ waitPromise' = "fulfilled"
            /\ UNCHANGED <<checkInterval, timeoutPending>>
       ELSE /\ waitPromise' = "pending"
            /\ checkInterval' = TRUE
            /\ timeoutPending' = TRUE
    /\ UNCHANGED <<mapsGlobal, elapsed>>
    /\ UNCHANGED outsideWait

\* The maps script defines the global.
GoogleAppears ==
    /\ ~mapsGlobal
    /\ mapsGlobal' = TRUE
    /\ UNCHANGED <<waitPromise, checkInterval, timeoutPending, elapsed>>
    /\ UNCHANGED outsideWait

\* Poll whose callback resolves and leaves the interval running.
Poll_KeepsInterval ==
    /\ checkInterval
    /\ elapsed < TimeoutMs
    /\ elapsed' = elapsed + PollIntervalMs
    /\ IF mapsGlobal
       THEN waitPromise' = "fulfilled"
       ELSE UNCHANGED waitPromise
    /\ UNCHANGED <<mapsGlobal, checkInterval, timeoutPending>>
    /\ UNCHANGED outsideWait

\* The next period of the interval passes and its callback runs: when the
\* global is there it clears the interval and resolves.
Poll ==
    /\ checkInterval
    /\ elapsed < TimeoutMs
    /\ elapsed' = elapsed + PollIntervalMs
    /\ IF mapsGlobal
       THEN /\ checkInterval' = FALSE
            /\ waitPromise' = "fulfilled"
       ELSE UNCHANGED <<checkInterval, waitPromise>>
    /\ UNCHANGED <<mapsGlobal, timeoutPending>>
    /\ UNCHANGED outsideWait

\* Time passes while only the timeout is left (it is never cleared).
Elapse ==
    /\ ~checkInterval
    /\ timeoutPending
    /\ elapsed < TimeoutMs
    /\ elapsed' = elapsed + PollIntervalMs
    /\ UNCHANGED <<mapsGlobal, waitPromise, checkInterval, timeoutPending>>
    /\ UNCHANGED outsideWait

\* The callback of the timeout: clearInterval and resolve (resolve of a
\* fulfilled promise does nothing).
Timeout ==
    /\ timeoutPending
    /\ elapsed = TimeoutMs
    /\ timeoutPending' = FALSE
    /\ checkInterval' = FALSE
    /\ waitPromise' = "fulfilled"
    /\ UNCHANGED <<mapsGlobal, elapsed>>
    /\ UNCHANGED outsideWait

\* ------------------------------------------------------ handlePlaceChanged
\* A string of the place is a sequence of words and of single spaces; "" is
\* the empty sequence.
Space == " "

MaxComponents == 2

\* component.types: one of the types the handler looks for, another type, or
\* two types at once.
ComponentTypes ==
    { {"route"}, {"street_number"}, {"locality"},
      {"administrative_area_level_2"}, {"postal_code"}, {"country"},
      {"locality", "postal_code"} }

\* The API gives no empty long_name.
AddressComponents ==
    [long_name : { <<"a">>, <<"b">> }, types : ComponentTypes]

\* place.address_components is absent (the user confirmed a text that is no
\* suggestion) or a list of components; place.formatted_address is optional.
Places ==
    [address_components :
        {None} \cup
        {Some(cs) : cs \in UNION { [1..n -> AddressComponents] : n \in 0..MaxComponents }},
     formatted_address : {None, Some(<<"F">>)}]

isStreetPart(component) ==
    "route" \in component.types \/ "street_number" \in component.types

isCityPart(component) ==
    "locality" \in component.types \/ "administrative_area_level_2" \in component.types

isZipPart(component) == "postal_code" \in component.types

\* The loop body with the street parts joined without the space.
addComponent_NoSpace(address, component) ==
    [street |-> IF isStreetPart(component)
                THEN (IF address.street # <<>>
                      THEN address.street \o component.long_name
                      ELSE component.long_name)
                ELSE address.street,
     city |-> IF isCityPart(component) THEN component.long_name ELSE address.city,
     zip |-> IF isZipPart(component) THEN component.long_name ELSE address.zip]

\* The body of `for (const component of place.address_components)`.
addComponent(address, component) ==
    [street |-> IF isStreetPart(component)
                THEN (IF address.street # <<>>
                      THEN address.street \o <<Space>> \o component.long_name
                      ELSE component.long_name)
                ELSE address.street,
     city |-> IF isCityPart(component) THEN component.long_name ELSE address.city,
     zip |-> IF isZipPart(component) THEN component.long_name ELSE address.zip]

RECURSIVE parseComponents(_, _)
\* The loop over the components, from street = city = zip = "".
parseComponents(address, components) ==
    IF components = <<>> THEN address
    ELSE parseComponents(addComponent(address, Head(components)), Tail(components))

\* parsedAddress without the fallback to the formatted address.
parsedAddress_NoFallback(p) ==
    parseComponents([street |-> <<>>, city |-> <<>>, zip |-> <<>>],
                    p.address_components[1])

\* What handlePlaceChanged passes to onAddressSelect for a place that has
\* address_components.
parsedAddress(p) ==
    LET parsed == parseComponents([street |-> <<>>, city |-> <<>>, zip |-> <<>>],
                                  p.address_components[1])
    IN  IF parsed.street = <<>> /\ p.formatted_address \notin {None, Some(<<>>)}
        THEN [parsed EXCEPT !.street = p.formatted_address[1]]
        ELSE parsed

PlaceIdle ==
    /\ place = [address_components |-> None, formatted_address |-> None]
    /\ placeHandled = FALSE
    /\ reported = <<>>

PlaceInit ==
    /\ place \in Places
    /\ placeHandled = FALSE
    /\ reported = <<>>

\* The place_changed listener: a place without address_components is ignored.
HandlePlaceChanged ==
    /\ ~placeHandled
    /\ placeHandled' = TRUE
    /\ reported' =
          IF place.address_components # None
          THEN Append(reported, parsedAddress(place))
          ELSE reported
    /\ UNCHANGED place
    /\ UNCHANGED outsidePlace

\* ------------------------------------------- the addresses of createOrder
\* value || fallback
orElse(value, fallback) == IF value = "" THEN fallback ELSE value

\* One address of `variables.order`, provinceCode being getProvinceCode(city).
orderAddress(od, provinceCode) ==
    [address1 |-> od.address1,
     address2 |-> "",
     city |-> od.city,
     countryCode |-> "ES",
     firstName |-> orElse(od.firstName, "Return"),
     lastName |-> orElse(od.lastName, "Return"),
     phone |-> orElse(od.phone, "+34608667749"),
     provinceCode |-> provinceCode,
     zip |-> od.zip]

\* createOrderAddresses with the city itself as the billing province code.
createOrderAddresses_BillingRawCity(od) ==
    [billingAddress |-> orderAddress(od, od.city),
     shippingAddress |-> orderAddress(od, getProvinceCode(od.city))]

\* billingAddress and shippingAddress of the mutation createOrder sends.
createOrderAddresses(od) ==
    LET provinceCode == getProvinceCode(od.city) IN
    [billingAddress |-> orderAddress(od, provinceCode),
     shippingAddress |-> orderAddress(od, provinceCode)]

\* The orderData of the call: the city in every spelling of a province name
\* and of another name, or empty; the other fields empty or filled in.
AddressInputs ==
    [address1 : FieldValues, zip : FieldValues, firstName : FieldValues,
     lastName : FieldValues, phone : FieldValues,
     city : { <<>> } \cup UNION { Spellings(w) : w \in ProvinceWords }]

AddressIdle ==
    /\ addressInput = [address1 |-> "", zip |-> "", firstName |-> "",
                       lastName |-> "", phone |-> "", city |-> <<>>]
    /\ addressRequest = None

AddressInit ==
    /\ addressInput \in AddressInputs
    /\ addressRequest = None

\* createOrder builds the request.
BuildAddresses ==
    /\ addressRequest = None
    /\ addressRequest' = Some(createOrderAddresses(addressInput))
    /\ UNCHANGED addressInput
    /\ UNCHANGED outsideAddress

\* ------------------------------------------------- the single-item form
\* The products prop: p1 has the variant v1, p2 has the variant v2.
ItemProducts == {"p1", "p2"}

productVariants(product) == IF product = "p1" THEN {"v1"} ELSE {"v2"}

\* availableVariants of the render whose formData.product is product.
availableVariants(product) ==
    IF product \in ItemProducts
    THEN {v \in productVariants(product) : inventoryQuantity(v) > 0}
    ELSE {}

ItemFieldNames == FieldNames \cup {"product", "variant"}

ItemEmptyFormData == [name \in ItemFieldNames |-> ""]

\* handleChange(e) of the single-item form: a change of the product also
\* empties the variant.
itemHandleChange(name, value) ==
    itemFormData' =
        IF name = "product"
        THEN [itemFormData EXCEPT ![name] = value, !.variant = ""]
        ELSE [itemFormData EXCEPT ![name] = value]

ItemIdle ==
    /\ itemFormData = ItemEmptyFormData
    /\ itemRendered = [product |-> ""]

\* React re-renders the single-item form.
ItemRender ==
    /\ itemRendered # [product |-> itemFormData.product]
    /\ itemRendered' = [product |-> itemFormData.product]
    /\ UNCHANGED itemFormData
    /\ UNCHANGED outsideItem

\* A change event of a text input.
ItemChangeText ==
    \E name \in InputNames, value \in FieldValues :
        /\ itemHandleChange(name, value)
        /\ UNCHANGED itemRendered
        /\ UNCHANGED outsideItem

\* A change event of the product select: one of its options.
ItemChangeProduct ==
    \E value \in {""} \cup ItemProducts :
        /\ itemHandleChange("product", value)
        /\ UNCHANGED itemRendered
        /\ UNCHANGED outsideItem

\* A change event of the variant select, which is rendered when the render
\* has a selected product: one of the options of that render.
ItemChangeVariant ==
    \E value \in {""} \cup availableVariants(itemRendered.product) :
        /\ itemRendered.product \in ItemProducts
        /\ itemHandleChange("variant", value)
        /\ UNCHANGED itemRendered
        /\ UNCHANGED outsideItem

\* ------------------------------------------------------------ two sessions
\* Two pages opened on the same catalog; each holds the products prop it was
\* rendered with.  Nothing else is shared between them.
Sessions == {1, 2}

\* The check of addToCart for a cart line of quantity current: it reads the
\* variant object of the page's products prop.
addRefused(snapshot, current, quantity) == current + quantity > snapshot

SessionsIdle ==
    /\ sessionSnapshot = [s \in Sessions |-> 0]
    /\ sessionCart = [s \in Sessions |-> 0]
    /\ sessionError = [s \in Sessions |-> FALSE]
    /\ sessionOrders = <<>>

\* Both pages were loaded while the stock was N.
SessionsInit ==
    /\ \E N \in 1..MaxStock : sessionSnapshot = [s \in Sessions |-> N]
    /\ sessionCart = [s \in Sessions |-> 0]
    /\ sessionError = [s \in Sessions |-> FALSE]
    /\ sessionOrders = <<>>

\* SessionSubmit that takes what it orders off the stock the other pages see.
SessionSubmit_Reserving(s) ==
    /\ sessionCart[s] > 0
    /\ Len(sessionOrders) < MaxInFlight
    /\ sessionOrders' =
          Append(sessionOrders,
                 [session |-> s,
                  lineItems |-> << [variantId |-> "v1",
                                    quantity |-> sessionCart[s]] >>])
    /\ sessionSnapshot' =
          [t \in Sessions |->
              IF t = s THEN sessionSnapshot[t]
              ELSE IF sessionSnapshot[t] > sessionCart[s]
              THEN sessionSnapshot[t] - sessionCart[s] ELSE 0]
    /\ sessionCart' = [sessionCart EXCEPT ![s] = 0]
    /\ sessionError' = [sessionError EXCEPT ![s] = FALSE]
    /\ UNCHANGED outsideSessions

\* addToCart in session s.
SessionAddToCart(s, quantity) ==
    /\ IF addRefused(sessionSnapshot[s], sessionCart[s], quantity)
       THEN /\ sessionError' = [sessionError EXCEPT ![s] = TRUE]
            /\ UNCHANGED sessionCart
       ELSE /\ sessionCart' = [sessionCart EXCEPT ![s] = @ + quantity]
            /\ sessionError' = [sessionError EXCEPT ![s] = FALSE]
    /\ UNCHANGED <<sessionSnapshot, sessionOrders>>
    /\ UNCHANGED outsideSessions

\* Session s submits its cart and the order is created: handleSubmit passes
\* the cart as orderData.lineItems and empties the cart afterwards.
SessionSubmit(s) ==
    /\ sessionCart[s] > 0
    /\ Len(sessionOrders) < MaxInFlight
    /\ sessionOrders' =
          Append(sessionOrders,
                 [session |-> s,
                  lineItems |-> << [variantId |-> "v1",
                                    quantity |-> sessionCart[s]] >>])
    /\ sessionCart' = [sessionCart EXCEPT ![s] = 0]
    /\ sessionError' = [sessionError EXCEPT ![s] = FALSE]
    /\ UNCHANGED sessionSnapshot
    /\ UNCHANGED outsideSessions

SessionAdds == \E s \in Sessions, quantity \in 1..MaxArg : SessionAddToCart(s, quantity)

SessionSubmits == \E s \in Sessions : SessionSubmit(s)

\* ------------------------------------------- the AddressAutocomplete effect
\* One mounted AddressAutocomplete in the cart form.  The script loader is
\* seen through the one promise all runs await; waitForGoogleMaps through the
\* moment it resolves.  A run of the effect is [pc, isMounted]:
\*   "awaitLoad"   at `await loadGoogleMapsScript()`
\*   "awaitMaps"   at `await waitForGoogleMaps()`
\*   "returned"    left at `if (!isMounted || !inputRef.current) return`
\*   "caught"      in the catch block, the error logged
\*   "listening"   an Autocomplete created on the input, with its
\*                 place_changed listener added
\*   "escaped"     the promise of initializeAutocomplete rejected
WidgetIdle ==
    /\ widgetScript = "none"
    /\ widgetGlobal = FALSE
    /\ effects = <<>>

\* The component has mounted and the effect has run for the first time; the
\* script may have been loaded before (isScriptLoaded, or a script element
\* found in the document), with or without the places library defined.
WidgetInit ==
    /\ widgetScript \in {"loading", "loaded"}
    /\ widgetGlobal \in BOOLEAN
    /\ widgetGlobal => widgetScript = "loaded"
    /\ effects = << [pc |-> "awaitLoad", isMounted |-> TRUE] >>

\* script.onload
WidgetScriptOnload ==
    /\ widgetScript = "loading"
    /\ widgetScript' = "loaded"
    /\ UNCHANGED <<widgetGlobal, effects, formData>>
    /\ UNCHANGED outsideWidget

\* script.onerror
WidgetScriptOnerror ==
    /\ widgetScript = "loading"
    /\ widgetScript' = "error"
    /\ UNCHANGED <<widgetGlobal, effects, formData>>
    /\ UNCHANGED outsideWidget

\* The loaded script defines google.maps.places.Autocomplete.
WidgetGoogleAppears ==
    /\ widgetScript = "loaded"
    /\ ~widgetGlobal
    /\ widgetGlobal' = TRUE
    /\ UNCHANGED <<widgetScript, effects, formData>>
    /\ UNCHANGED outsideWidget

\* Run e resumes after `await loadGoogleMapsScript()`.
EffectAfterLoad ==
    \E e \in DOMAIN effects :
        /\ effects[e].pc = "awaitLoad"
        /\ widgetScript \in {"loaded", "error"}
        /\ effects' = [effects EXCEPT ![e].pc =
                          IF widgetScript = "loaded" THEN "awaitMaps" ELSE "caught"]
        /\ UNCHANGED <<widgetScript, widgetGlobal, formData>>
        /\ UNCHANGED outsideWidget

\* The rest of initializeAutocomplete once waitForGoogleMaps has resolved,
\* without the try/catch around it.
afterWait_NoCatch(run) ==
    IF ~run.isMounted THEN "returned"
    ELSE IF ~widgetGlobal THEN "escaped"
    ELSE "listening"

\* The rest of initializeAutocomplete once waitForGoogleMaps has resolved.
afterWait(run) ==
    IF ~run.isMounted THEN "returned"
    ELSE IF ~widgetGlobal THEN "caught"
    ELSE "listening"

\* Run e resumes after `await waitForGoogleMaps()`: the promise resolved
\* because the global was seen, or because of the timeout.
EffectAfterWait ==
    \E e \in DOMAIN effects, timedOut \in BOOLEAN :
        /\ effects[e].pc = "awaitMaps"
        /\ widgetGlobal \/ timedOut
        /\ effects' = [effects EXCEPT ![e].pc = afterWait(effects[e])]
        /\ UNCHANGED <<widgetScript, widgetGlobal, formData>>
        /\ UNCHANGED outsideWidget

\* The parent renders again: handleAddressSelect is a new function, so the
\* effect's cleanup runs (isMounted = false of the last run) and the effect
\* runs again, up to its first await.
ParentRender ==
    /\ Len(effects) < MaxEffects
    /\ effects' =
          Append([e \in DOMAIN effects |-> [effects[e] EXCEPT !.isMounted = FALSE]],
                 [pc |-> "awaitLoad", isMounted |-> TRUE])
    /\ UNCHANGED <<widgetScript, widgetGlobal, formData>>
    /\ UNCHANGED outsideWidget

\* The autocompletes with a place_changed listener on the input: no step
\* removes a listener or an instance.
liveAutocompletes == {e \in DOMAIN effects : effects[e].pc = "listening"}

\* place_changed of the autocomplete made by run e, for a place with
\* address_components: handlePlaceChanged calls the onAddressSelect of that
\* run's render.
PlaceChanged ==
    \E e \in liveAutocompletes,
       address \in [street : FieldValues, city : FieldValues, zip : FieldValues] :
        /\ handleAddressSelect(address)
        /\ UNCHANGED widgetVars
        /\ UNCHANGED outsideWidget

\* --------------------------------------------------------- specifications
\* The cart form, with createOrder behind its submit.
Init ==
    /\ FormInit /\ FieldsIdle /\ OrderIdle /\ LoaderIdle /\ ProvinceIdle
    /\ env = Configured /\ CatalogIdle /\ WaitIdle /\ PlaceIdle
    /\ AddressIdle
    /\ ItemIdle
    /\ SessionsIdle
    /\ WidgetIdle

Next ==
    \/ Render
    \/ AddToCart
    \/ UpdateQuantity
    \/ RemoveFromCart
    \/ ClearCart
    \/ Submit
    \/ Settle

Spec == Init /\ [][Next]_vars

\* One call of createOrder, for every argument and every answer.
OrderSpecInit ==
    /\ FormInit /\ FieldsIdle /\ OrderInit /\ LoaderIdle /\ ProvinceIdle
    /\ env \in Environments /\ CatalogIdle /\ WaitIdle /\ PlaceIdle
    /\ AddressIdle
    /\ ItemIdle
    /\ SessionsIdle
    /\ WidgetIdle

OrderNext == CreateOrderCall \/ CreateOrderSettle

OrderSpec == OrderSpecInit /\ [][OrderNext]_vars

\* The script loader under the runs of the autocomplete effect.
LoaderSpecInit ==
    /\ FormInit /\ FieldsIdle /\ OrderIdle /\ LoaderInit /\ ProvinceIdle
    /\ env = Configured /\ CatalogIdle /\ WaitIdle /\ PlaceIdle
    /\ AddressIdle
    /\ ItemIdle
    /\ SessionsIdle
    /\ WidgetIdle

LoaderNext ==
    \/ InitializeAutocomplete
    \/ ScriptOnload
    \/ ScriptOnerror
    \/ ResumeAfterLoad

LoaderSpec == LoaderSpecInit /\ [][LoaderNext]_vars

\* Two calls of getProvinceCode, for every pair of spellings of one name.
ProvinceSpecInit ==
    /\ FormInit /\ FieldsIdle /\ OrderIdle /\ LoaderIdle /\ ProvinceInit
    /\ env = Configured /\ CatalogIdle /\ WaitIdle /\ PlaceIdle
    /\ AddressIdle
    /\ ItemIdle
    /\ SessionsIdle
    /\ WidgetIdle

ProvinceNext == GetProvinceCode

ProvinceSpec == ProvinceSpecInit /\ [][ProvinceNext]_vars

\* One call of getProducts, for every configuration and every answer.
CatalogSpecInit ==
    /\ FormInit /\ FieldsIdle /\ OrderIdle /\ LoaderIdle /\ ProvinceIdle
    /\ env \in Environments /\ CatalogIdle /\ WaitIdle /\ PlaceIdle
    /\ AddressIdle
    /\ ItemIdle
    /\ SessionsIdle
    /\ WidgetIdle

CatalogNext == GetProductsCall \/ GetProductsSettle

CatalogSpec == CatalogSpecInit /\ [][CatalogNext]_vars

\* The two backend calls, getProducts and createOrder, side by side.
BackendSpecInit ==
    /\ FormInit /\ FieldsIdle /\ OrderInit /\ LoaderIdle /\ ProvinceIdle
    /\ env \in Environments /\ CatalogIdle /\ WaitIdle /\ PlaceIdle
    /\ AddressIdle
    /\ ItemIdle
    /\ SessionsIdle
    /\ WidgetIdle

BackendNext ==
    \/ GetProductsCall
    \/ GetProductsSettle
    \/ CreateOrderCall
    \/ CreateOrderSettle

BackendSpec == BackendSpecInit /\ [][BackendNext]_vars

\* One call of waitForGoogleMaps.  The browser runs a timer callback that is
\* due, so the timer steps are fair; the global may never appear.
WaitSpecInit ==
    /\ FormInit /\ FieldsIdle /\ OrderIdle /\ LoaderIdle /\ ProvinceIdle
    /\ env = Configured /\ CatalogIdle /\ WaitInit /\ PlaceIdle
    /\ AddressIdle
    /\ ItemIdle
    /\ SessionsIdle
    /\ WidgetIdle

WaitNext ==
    \/ WaitForGoogleMaps
    \/ GoogleAppears
    \/ Poll
    \/ Elapse
    \/ Timeout

WaitSpec ==
    /\ WaitSpecInit
    /\ [][WaitNext]_vars
    /\ WF_vars(Poll)
    /\ WF_vars(Elapse)
    /\ WF_vars(Timeout)

\* One place_changed event, for every place.
PlaceSpecInit ==
    /\ FormInit /\ FieldsIdle /\ OrderIdle /\ LoaderIdle /\ ProvinceIdle
    /\ env = Configured /\ CatalogIdle /\ WaitIdle /\ PlaceInit
    /\ AddressIdle
    /\ ItemIdle
    /\ SessionsIdle
    /\ WidgetIdle

PlaceNext == HandlePlaceChanged

PlaceSpec == PlaceSpecInit /\ [][PlaceNext]_vars

\* The cart form's text fields and its submissions.
FieldsSpecInit ==
    /\ FieldsInit /\ OrderIdle /\ LoaderIdle /\ ProvinceIdle
    /\ env = Configured /\ CatalogIdle /\ WaitIdle /\ PlaceIdle
    /\ AddressIdle
    /\ ItemIdle
    /\ SessionsIdle
    /\ WidgetIdle

FieldsNext ==
    \/ HandleChange
    \/ HandleAddressSelect
    \/ Render
    \/ SubmitEvent
    \/ Settle

FieldsSpec == FieldsSpecInit /\ [][FieldsNext]_vars

\* The addresses of one order-creation request, for every orderData.
AddressSpecInit ==
    /\ FormInit /\ FieldsIdle /\ OrderIdle /\ LoaderIdle /\ ProvinceIdle
    /\ env = Configured /\ CatalogIdle /\ WaitIdle /\ PlaceIdle
    /\ AddressInit
    /\ ItemIdle
    /\ SessionsIdle
    /\ WidgetIdle

AddressNext == BuildAddresses

AddressSpec == AddressSpecInit /\ [][AddressNext]_vars

\* The fields of the single-item form.
ItemSpecInit ==
    /\ FormInit /\ FieldsIdle /\ OrderIdle /\ LoaderIdle /\ ProvinceIdle
    /\ env = Configured /\ CatalogIdle /\ WaitIdle /\ PlaceIdle
    /\ AddressIdle
    /\ ItemIdle
    /\ SessionsIdle
    /\ WidgetIdle

ItemNext ==
    \/ ItemRender
    \/ ItemChangeText
    \/ ItemChangeProduct
    \/ ItemChangeVariant

ItemSpec == ItemSpecInit /\ [][ItemNext]_vars

\* Two sessions of the cart form on one variant.
SessionsSpecInit ==
    /\ FormInit /\ FieldsIdle /\ OrderIdle /\ LoaderIdle /\ ProvinceIdle
    /\ env = Configured /\ CatalogIdle /\ WaitIdle /\ PlaceIdle
    /\ AddressIdle
    /\ ItemIdle
    /\ SessionsInit
    /\ WidgetIdle

SessionsNext == SessionAdds \/ SessionSubmits

SessionsSpec == SessionsSpecInit /\ [][SessionsNext]_vars

\* One mounted AddressAutocomplete inside the cart form, with the form's own
\* change and submit events; the answers to the requests are in FieldsSpec.
WidgetSpecInit ==
    /\ FieldsInit /\ OrderIdle /\ LoaderIdle /\ ProvinceIdle
    /\ env = Configured /\ CatalogIdle /\ WaitIdle /\ PlaceIdle
    /\ AddressIdle
    /\ ItemIdle
    /\ SessionsIdle
    /\ WidgetInit

WidgetNext ==
    \/ WidgetScriptOnload
    \/ WidgetScriptOnerror
    \/ WidgetGoogleAppears
    \/ EffectAfterLoad
    \/ EffectAfterWait
    \/ ParentRender
    \/ PlaceChanged
    \/ HandleChange
    \/ SubmitEvent

WidgetSpec == WidgetSpecInit /\ [][WidgetNext]_vars

\* ------------------------------------------------------------------ claims
\* The quantity the cart holds for variant v (0 when it has no line).
quantityOf(items, v) ==
    IF findIndex(items, v) > 0 THEN items[findIndex(items, v)].quantity ELSE 0

\* C1: after any sequence of cart operations every cart line's quantity is
\* at most its variant's inventoryQuantity.
C1_QuantityWithinInventory ==
    \A i \in DOMAIN cartItems :
        cartItems[i].quantity <= inventoryQuantity(cartItems[i].variantId)

\* C2: the mutation sent when the cart form is submitted carries, for every
\* line of the submitted cart, its variant id and its quantity.
C2_MutationCarriesCart ==
    [][Len(inflight') > Len(inflight) =>
         inflight'[Len(inflight')].lineItems =
            [i \in DOMAIN rendered.cartItems |->
                [variantId |-> Some(rendered.cartItems[i].variantId),
                 quantity |-> rendered.cartItems[i].quantity]]]_vars

\* The state the cart handlers never write.
cartFrame == <<isSubmitting, success, rendered, inflight>>

\* C3: an addToCart or updateQuantity call whose resulting quantity would
\* exceed the variant's inventoryQuantity leaves the cart lines as they were
\* (a handler writes nothing but cartItems and error).
C3_ExceedingCallRejected ==
    [][/\ \A v \in Variants, quantity \in 1..MaxArg :
            (/\ addToCart(v, quantity)
             /\ UNCHANGED cartFrame
             /\ quantityOf(cartItems, v) + quantity > inventoryQuantity(v))
            => cartItems' = cartItems
       /\ \A i \in DOMAIN rendered.cartItems, d \in {-1, 1} :
            LET v == rendered.cartItems[i].variantId
                quantity == rendered.cartItems[i].quantity + d
            IN (/\ updateQuantity(v, quantity)
                /\ UNCHANGED cartFrame
                /\ quantity > inventoryQuantity(v))
               => cartItems' = cartItems]_vars

\* The answer to the settled createOrder call, and how the call ended.
answer == response[1]
ended == result[1]

\* The answer is a parsed body that has an orderCreate object.
hasOrderCreate(r) ==
    /\ ~r.rejected
    /\ r.json # None
    /\ r.json[1].data # None
    /\ r.json[1].data[1].orderCreate # None

orderCreate(r) == r.json[1].data[1].orderCreate[1]

\* orderCreate.userErrors is a non-empty list.
hasUserErrors(r) ==
    /\ hasOrderCreate(r)
    /\ orderCreate(r).userErrors # None
    /\ Len(orderCreate(r).userErrors[1]) > 0

\* The body carries top-level GraphQL errors.
hasGraphQLErrors(r) ==
    /\ ~r.rejected
    /\ r.json # None
    /\ r.json[1].errors # None

\* C4: a response whose orderCreate.userErrors is non-empty makes createOrder
\* return {success: false, error: userErrors}, never throw, whatever else the
\* response holds.
C4_UserErrorsFailure ==
    (response # None /\ hasUserErrors(answer)) =>
        /\ result # None
        /\ ~ended.threw
        /\ ~ended.success
        /\ ended.errorList = orderCreate(answer).userErrors[1]

\* C4 happens: userErrors beside a present order, answered with a failure.
C4_Witness ==
    /\ response # None
    /\ hasUserErrors(answer)
    /\ orderCreate(answer).order # None
    /\ result # None
    /\ ~ended.success

\* C5: a createOrder call that does not throw returns success exactly when the
\* response has an orderCreate with a non-null order, no userErrors and no
\* top-level GraphQL errors, and the data is then that order.  (Stated for
\* responses with a success status: the others are C6's.)
C5_SuccessExactlyWhen ==
    (response # None /\ result # None /\ answer.ok /\ ~ended.threw) =>
        /\ ended.success <=>
              /\ hasOrderCreate(answer)
              /\ orderCreate(answer).order # None
              /\ ~hasUserErrors(answer)
              /\ ~hasGraphQLErrors(answer)
        /\ ended.success => ended.data = orderCreate(answer).order

\* C6: a network failure or a non-success HTTP status makes createOrder throw.
C6_TransportFailureThrows ==
    (response # None /\ (answer.rejected \/ ~answer.ok)) =>
        (result # None /\ ended.threw)

\* C7: top-level GraphQL errors make createOrder return a failure whose error
\* is the backend's error detail.  (Stated for responses with a success
\* status: the others are C6's.)
C7_GraphQLErrorsFailure ==
    (response # None /\ answer.ok /\ hasGraphQLErrors(answer)) =>
        /\ result # None
        /\ ~ended.threw
        /\ ~ended.success
        /\ ended.errorList = answer.json[1].errors[1]

\* C8: an orderCreate object with no userErrors and no order makes createOrder
\* return a failure, never throw.
C8_MissingOrderFailure ==
    (/\ response # None
     /\ hasOrderCreate(answer)
     /\ ~hasUserErrors(answer)
     /\ orderCreate(answer).order = None) =>
        /\ result # None
        /\ ~ended.threw
        /\ ~ended.success

\* C8 happens: such a response, answered "Order not found in response".
C8_Witness ==
    /\ response # None
    /\ hasOrderCreate(answer)
    /\ ~hasUserErrors(answer)
    /\ orderCreate(answer).order = None
    /\ result # None
    /\ ended.error = "Order not found in response"

\* The first load is in flight.
loadPending ==
    /\ scriptLoadPromise # None
    /\ promises[scriptLoadPromise[1]] = "pending"

\* The runs that have called loadGoogleMapsScript.
callers == {r \in DOMAIN runs : runs[r].pc # "notStarted"}

\* C9: while the first load is in flight every caller holds that one promise
\* and exactly one script element has been injected; at no time has more than
\* one been injected, nor does the document hold two maps scripts.
C9_OneLoadShared ==
    /\ Len(injectedScripts) <= 1
    /\ (IF preexisting THEN 1 ELSE 0) + Len(injectedScripts) <= 1
    /\ loadPending =>
          /\ Len(injectedScripts) = 1
          /\ \A r \in callers : runs[r].promise = scriptLoadPromise[1]

\* C9 happens: all the runs called while the load was in flight.
C9_Witness ==
    /\ loadPending
    /\ callers = DOMAIN runs
    /\ Len(injectedScripts) = 1

\* C10: a submission whose createOrder throws or returns a failure ends with
\* an error message and without the success state.
C10_FailureEndsInError ==
    [][\A i \in DOMAIN inflight, r \in FetchOutcomes :
          (/\ SettleWith(i, r)
           /\ (createOrderOutcome(r).threw \/ ~createOrderOutcome(r).success))
          => (error' # NoError /\ ~success')]_vars

\* The letters of a string, accents and case set aside.
lettersOf(str) ==
    LET kept == SelectSeq(str, LAMBDA c : c.letter # "") IN
    [i \in DOMAIN kept |-> kept[i].letter]

\* The table entries whose name has the letters of str.
entriesFor(str) ==
    {i \in DOMAIN SPANISH_PROVINCE_CODES :
        lettersOf(SPANISH_PROVINCE_CODES[i].name) = lettersOf(str)}

provinceCallsDone == provinceCodes[1] # None /\ provinceCodes[2] # None

\* C11 as claimed: any two names that are equal once accents and case are
\* removed get the same result.
C11_SameNormalizedSameResult ==
    (provinceCallsDone /\ lettersOf(provinceNames[1]) = lettersOf(provinceNames[2]))
        => provinceCodes[1] = provinceCodes[2]

\* C11 as amended: a name whose letters are those of a table name gets that
\* entry's code, whatever its accents and case (so two such names get the same
\* result); any other name is returned unchanged.
C11_CodeOrUnchanged ==
    provinceCallsDone =>
        \A k \in 1..2 :
            IF entriesFor(provinceNames[k]) # {}
            THEN \E i \in entriesFor(provinceNames[k]) :
                    provinceCodes[k][1] = SPANISH_PROVINCE_CODES[i].code
            ELSE provinceCodes[k][1] = provinceNames[k]

\* C11 happens: two spellings that differ in case and in accents, one with a
\* precomposed accent and one with a combining mark, both get the code J.
C11_Witness ==
    /\ provinceCallsDone
    /\ provinceNames[1] = << Lo("J"), Lo("A"), LoAcc("E"), Lo("N") >>
    /\ provinceNames[2] = << Up("J"), Up("A"), CombiningMark, Up("E"), Up("N") >>
    /\ provinceCodes[1] = Some(<< Up("J") >>)
    /\ provinceCodes[2] = Some(<< Up("J") >>)

\* What the backend answered getProducts, and how getProducts ended.
catalogAnswer == catalogResponse[1]

catalogEnded == catalogResult[1]

\* C12: every product getProducts returns has image.src, which is the first
\* image's URL, or "" when the product has no image; the products are those
\* of the backend response, in its order, with their other fields.
C12_ImageSrcOfFirstImage ==
    (catalogResponse # None /\ ~catalogEnded.threw) =>
        LET backend == catalogAnswer.json[1].data[1]
            products == catalogEnded.products
        IN  /\ Len(products) = Len(backend)
            /\ \A i \in DOMAIN products :
                /\ products[i].id = backend[i].id
                /\ products[i].images = backend[i].images
                /\ products[i].image.src =
                      IF backend[i].images = <<>> THEN "" ELSE Head(backend[i].images)

\* C12 happens: a product with two images and a product with none come back
\* with the first URL and with "".
C12_Witness ==
    /\ catalogResponse # None
    /\ ~catalogEnded.threw
    /\ Len(catalogEnded.products) = 2
    /\ catalogEnded.products[1].images = <<"u2", "u1">>
    /\ catalogEnded.products[1].image.src = "u2"
    /\ catalogEnded.products[2].images = <<>>
    /\ catalogEnded.products[2].image.src = ""

\* C13: when the response is not ok, or its body holds GraphQL errors,
\* getProducts throws to its caller and returns no product list.
C13_GetProductsThrows ==
    (/\ catalogResponse # None
     /\ \/ ~catalogAnswer.ok
        \/ /\ catalogAnswer.json # None
           /\ catalogAnswer.json[1].errors # None
           /\ Len(catalogAnswer.json[1].errors[1]) > 0)
        => /\ catalogEnded.threw
           /\ catalogEnded.products = <<>>

\* C13 happens: a response that is not ok, with a well-formed product list
\* and no GraphQL errors, makes getProducts throw.
C13_Witness ==
    /\ catalogResponse # None
    /\ ~catalogAnswer.rejected
    /\ ~catalogAnswer.ok
    /\ catalogAnswer.json # None
    /\ catalogAnswer.json[1].errors = None
    /\ catalogAnswer.json[1].data # None
    /\ Len(catalogAnswer.json[1].data[1]) > 0
    /\ catalogEnded.threw

\* The access token or the shop URL is undefined or empty.
configMissing ==
    \/ env.NEXT_PUBLIC_ACCESS_TOKEN \in {None, Some("")}
    \/ env.NEXT_PUBLIC_SHOP_URL \in {None, Some("")}

\* C14: with the access token or the shop URL missing, getProducts and
\* createOrder send nothing to the backend, and each call ends by throwing
\* the configuration error.
C14_ConfigErrorBeforeRequest ==
    configMissing =>
        /\ catalogRequest = None /\ catalogResponse = None
        /\ mutation = None /\ response = None
        /\ catalogResult \in {None, Some(CatalogThrows(ConfigError))}
        /\ result \in {None, Some(Throws(ConfigError))}

\* C14 happens: the token is set and the shop URL is not; both calls were made
\* and both threw.
C14_Witness ==
    /\ env.NEXT_PUBLIC_ACCESS_TOKEN = Some("set")
    /\ env.NEXT_PUBLIC_SHOP_URL = None
    /\ catalogResult = Some(CatalogThrows(ConfigError))
    /\ result = Some(Throws(ConfigError))
    /\ catalogRequest = None
    /\ mutation = None

\* Unloaded, Loading, Ready.
loaderState ==
    IF isScriptLoaded THEN "Ready"
    ELSE IF scriptLoadPromise # None THEN "Loading"
    ELSE "Unloaded"

loaderForward ==
    { <<"Unloaded", "Unloaded">>, <<"Unloaded", "Loading">>, <<"Unloaded", "Ready">>,
      <<"Loading", "Loading">>, <<"Loading", "Ready">>, <<"Ready", "Ready">> }

\* The runs that call loadGoogleMapsScript in this step.
calling(r) == runs[r].pc = "notStarted" /\ runs'[r].pc = "awaitLoad"

\* C15: the loader's state only moves forward along Unloaded, Loading, Ready;
\* the loaded flag, once set, stays set; a call of loadGoogleMapsScript made
\* when the flag is set returns a promise that is already fulfilled and leaves
\* the document's scripts as they are.
C15_LoaderOnlyForward ==
    [][/\ <<loaderState, loaderState'>> \in loaderForward
       /\ isScriptLoaded => isScriptLoaded'
       /\ \A r \in DOMAIN runs :
            (isScriptLoaded /\ calling(r)) =>
                /\ promises'[runs'[r].promise] = "fulfilled"
                /\ injectedScripts' = injectedScripts
                /\ scriptLoadPromise' = scriptLoadPromise]_vars

\* C15 happens: the script was injected and has loaded, and a run that called
\* afterwards holds a promise of its own, fulfilled; one script was injected.
C15_Witness ==
    /\ isScriptLoaded
    /\ Len(injectedScripts) = 1
    /\ \E r \in DOMAIN runs :
        /\ runs[r].pc = "awaitLoad"
        /\ runs[r].promise # scriptLoadPromise[1]
        /\ promises[runs[r].promise] = "fulfilled"

\* C16: a pending waitForGoogleMaps is eventually resolved, and nothing else
\* happens to it; a poll that sees the global resolves it; a wait that is
\* still pending is within the 10 seconds, and the timeout resolves it; once
\* it is resolved the interval is not running.
C16_WaitAlwaysResolves ==
    /\ (waitPromise = "pending") ~> (waitPromise = "fulfilled")
    /\ [](waitPromise \in {"none", "pending", "fulfilled"})
    /\ [][(waitPromise = "pending" /\ mapsGlobal /\ elapsed' # elapsed)
            => waitPromise' = "fulfilled"]_vars
    /\ [](waitPromise = "pending" => (timeoutPending /\ elapsed <= TimeoutMs))
    /\ [][waitPromise = "fulfilled" => waitPromise' = "fulfilled"]_vars
    /\ [](waitPromise = "fulfilled" => ~checkInterval)

\* C16 happens: the global never appeared and the wait was resolved at the
\* ceiling.
C16_Witness ==
    /\ ~mapsGlobal
    /\ waitPromise = "fulfilled"
    /\ elapsed = TimeoutMs
    /\ ~checkInterval

\* The components of the place that pass a test, in component order.
partsOf(test(_)) == SelectSeq(place.address_components[1], test)

\* str is the long names of parts with one space between each two.
joinsWithSpaces(str, parts) ==
    /\ Len(str) = 2 * Len(parts) - 1
    /\ \A k \in 1..Len(parts) : <<str[2 * k - 1]>> = parts[k].long_name
    /\ \A k \in 1..(Len(parts) - 1) : str[2 * k] = Space

\* C17: for a place with address components, onAddressSelect gets as street
\* the long names of the route and street_number components in their order,
\* joined by single spaces; as city the long name of the last component typed
\* locality or administrative_area_level_2; as zip the long name of the last
\* postal_code component.
C17_ParsedFromComponents ==
    (placeHandled /\ place.address_components # None) =>
        /\ Len(reported) = 1
        /\ partsOf(isStreetPart) # <<>> =>
              joinsWithSpaces(reported[1].street, partsOf(isStreetPart))
        /\ partsOf(isCityPart) # <<>> =>
              reported[1].city =
                  partsOf(isCityPart)[Len(partsOf(isCityPart))].long_name
        /\ partsOf(isZipPart) # <<>> =>
              reported[1].zip =
                  partsOf(isZipPart)[Len(partsOf(isZipPart))].long_name

\* C17 happens: a street number and a route give the street "b a".
C17_Witness ==
    /\ placeHandled
    /\ place.address_components =
          Some(<< [long_name |-> <<"b">>, types |-> {"street_number"}],
                  [long_name |-> <<"a">>, types |-> {"route"}] >>)
    /\ Len(reported) = 1
    /\ reported[1].street = <<"b", Space, "a">>

\* C18 as claimed: after a place_changed event was handled, onAddressSelect
\* has been called; the street is the formatted address when the components
\* give no street; a city or zip the components do not give is "".
C18_AlwaysReported ==
    placeHandled =>
        /\ Len(reported) = 1
        /\ place.address_components # None =>
            /\ (partsOf(isStreetPart) = <<>> /\ place.formatted_address # None)
                  => reported[1].street = place.formatted_address[1]
            /\ partsOf(isCityPart) = <<>> => reported[1].city = <<>>
            /\ partsOf(isZipPart) = <<>> => reported[1].zip = <<>>

\* C18 as amended: for a place with address components onAddressSelect is
\* called once; when the components give no street, the street is the
\* formatted address, or "" when the place has none; a city or zip the
\* components do not give is "".  For a place without address components
\* onAddressSelect is not called.
C18_ReportedWhenComponents ==
    placeHandled =>
        IF place.address_components = None
        THEN reported = <<>>
        ELSE /\ Len(reported) = 1
             /\ partsOf(isStreetPart) = <<>> =>
                  reported[1].street =
                      IF place.formatted_address # None
                      THEN place.formatted_address[1] ELSE <<>>
             /\ partsOf(isCityPart) = <<>> => reported[1].city = <<>>
             /\ partsOf(isZipPart) = <<>> => reported[1].zip = <<>>

\* C18 happens: the only component is a postal code; the street reported is
\* the formatted address and the city is "".
C18_Witness ==
    /\ placeHandled
    /\ place.address_components =
          Some(<< [long_name |-> <<"a">>, types |-> {"postal_code"}] >>)
    /\ place.formatted_address = Some(<<"F">>)
    /\ reported = << [street |-> <<"F">>, city |-> <<>>, zip |-> <<"a">>] >>

\* C19: a submit sends one order-creation request, and nothing else sends
\* one: a step adds at most one request, a step that adds one is a submit,
\* and the step that handles the answer (isSubmitting falls), be it a success
\* or a failure, takes the request out of flight and sends no other.
C19_OneRequestPerSubmit ==
    [][/\ Submit => Len(inflight') = Len(inflight) + 1
       /\ Len(inflight') <= Len(inflight) + 1
       /\ Len(inflight') > Len(inflight) =>
            /\ ~rendered.isSubmitting /\ Len(rendered.cartItems) > 0
            /\ isSubmitting' /\ UNCHANGED cartItems
       /\ (isSubmitting /\ ~isSubmitting') => Len(inflight') = Len(inflight) - 1
       /\ Len(inflight') < Len(inflight) => ~isSubmitting']_vars

\* C19 happens: the one request of a submit failed, nothing is in flight and
\* the cart is still there.
C19_Witness ==
    /\ error = "fetch failed"
    /\ ~isSubmitting
    /\ inflight = <<>>
    /\ Len(cartItems) > 0

\* C20: at most one createOrder call of the form is in flight.
C20_AtMostOneInFlight == Len(inflight) <= 1

\* C25: the cart holds at most one line per variant id.
C25_OneLinePerVariant ==
    \A i, j \in DOMAIN cartItems :
        cartItems[i].variantId = cartItems[j].variantId => i = j

\* C27: isSubmitting is true exactly while a createOrder call of the form has
\* not settled: from the start of the call until it resolves or rejects, and
\* false afterwards.
C27_SubmittingWhileInFlight ==
    isSubmitting <=> Len(inflight) > 0

\* The load has failed: onerror has fired on an injected script.
loadFailed ==
    \E k \in DOMAIN injectedScripts : injectedScripts[k].state = "error"

\* C28: once the script load has failed the cached promise is the rejected
\* one and stays so: every later call of loadGoogleMapsScript returns that
\* rejected promise, no second script is injected, and the loaded flag is
\* never set.
C28_FailedLoadIsFinal ==
    /\ [](loadFailed =>
            /\ scriptLoadPromise # None
            /\ promises[scriptLoadPromise[1]] = "rejected"
            /\ Len(injectedScripts) = 1
            /\ ~isScriptLoaded)
    /\ [][loadFailed =>
            /\ scriptLoadPromise' = scriptLoadPromise
            /\ \A r \in DOMAIN runs :
                 calling(r) => runs'[r].promise = scriptLoadPromise[1]]_vars

\* C28 happens: a run that called after the failure holds the rejected
\* promise, and one script was injected.
C28_Witness ==
    /\ loadFailed
    /\ Len(injectedScripts) = 1
    /\ injectedScripts[1].state = "error"
    /\ \E r \in DOMAIN runs :
        /\ runs[r].pc = "awaitLoad"
        /\ runs[r].promise = scriptLoadPromise[1]
    /\ \E r \in DOMAIN runs : runs[r].pc = "caught"

\* createOrder ended with an order created.
succeeded(outcome) == ~outcome.threw /\ outcome.success

\* C21: when a submission's createOrder call has ended, the form fields and
\* the cart are empty if it succeeded and are what they were if it failed.
C21_ResetOnlyOnSuccess ==
    [][\A i \in DOMAIN inflight, r \in FetchOutcomes :
          SettleWith(i, r) =>
              IF succeeded(createOrderOutcome(r))
              THEN formData' = EmptyFormData /\ cartItems' = <<>>
              ELSE formData' = formData /\ cartItems' = cartItems]_vars

C22_AddressesAndProvince ==
    addressRequest # None =>
        LET billing == addressRequest[1].billingAddress
            shipping == addressRequest[1].shippingAddress
            city == addressInput.city
        IN  /\ billing = shipping
            /\ \A field \in DOMAIN billing : billing[field] = shipping[field]
            /\ billing.city = city
            /\ IF entriesFor(city) # {}
               THEN \E i \in entriesFor(city) :
                       billing.provinceCode = SPANISH_PROVINCE_CODES[i].code
               ELSE billing.provinceCode = city

\* C22 happens: a city that is no province name is sent as the province code
\* of both addresses.
C22_Witness ==
    /\ addressRequest # None
    /\ addressInput.city = << Up("R"), Lo("O"), Lo("M"), Lo("A") >>
    /\ addressInput.firstName = ""
    /\ addressRequest[1].billingAddress.provinceCode = addressInput.city
    /\ addressRequest[1].shippingAddress.provinceCode = addressInput.city
    /\ addressRequest[1].shippingAddress.firstName = "Return"

\* C30: in the single-item form the selected variant is empty or is a variant
\* of the selected product.
C30_VariantOfSelectedProduct ==
    \/ itemFormData.variant = ""
    \/ itemFormData.variant \in availableVariants(itemFormData.product)


widgetFailed == \E e \in DOMAIN effects : effects[e].pc = "caught"

\* C24: when the script fails to load or the global is not there when the wait
\* ends, no run of initializeAutocomplete ends with its error uncaught and no
\* autocomplete exists; the step into the catch block leaves the form's
\* state as it is, and afterwards the form still takes a submit event.
C24_FailureIsCaught ==
    /\ [](/\ \A e \in DOMAIN effects : effects[e].pc # "escaped"
          /\ (widgetScript = "error" \/ ~widgetGlobal) => liveAutocompletes = {}
          /\ (widgetFailed /\ Len(inflight) < MaxInFlight) => ENABLED SubmitEvent)
    /\ [][(\E e \in DOMAIN effects :
              effects[e].pc # "caught" /\ effects'[e].pc = "caught")
          => UNCHANGED <<formVars, formData>>]_vars

\* The wait timed out without the global, the mounted run is in its catch
\* block, there is no autocomplete, and the form has been filled in and
\* submitted.
C24_Witness ==
    /\ widgetScript = "loaded"
    /\ ~widgetGlobal
    /\ \E e \in DOMAIN effects : effects[e].pc = "caught" /\ effects[e].isMounted
    /\ liveAutocompletes = {}
    /\ formData.firstName = "x"
    /\ formData.address1 = ""
    /\ Len(inflight) > 0

\* C29: at most one autocomplete with a place_changed listener is live on
\* the input.
C29_AtMostOneLiveAutocomplete == Cardinality(liveAutocompletes) <= 1

=============================================================================
